---------------------------- MODULE Spec2Model ----------------------------
(***************************************************************************)
(* A model of react-gen's REPL:                                            *)
(*   scanProject / parseFile / buildProjectMap  (the project map builder)  *)
(*   AutoCompleter.complete / resolveReference  (the queries)              *)
(*   REPLState, handleCommand, infoCommand      (the state and its guards) *)
(*   initCommand                                (scan, cache, persist)     *)
(*   OllamaClient, RequestParser, generateCommand (component generation)   *)
(*                                                                         *)
(* Strings are TLA+ strings; a character is a string of length one.        *)
(* JavaScript values are tagged records (JSString, JSArray, JSObject, ...);*)
(* an object is its list of own enumerable properties in insertion order,  *)
(* which is the order `for (key in obj)` visits them.  Property names in   *)
(* the model are never integer-like and never names that Object.prototype  *)
(* defines, so `obj[key]` is a lookup among the own properties.            *)
(*                                                                         *)
(* Five specifications share the variables and the actions:                *)
(*   Spec          every small project, initCommand taken as one step,     *)
(*                 and the queries                                         *)
(*   SpecStepwise  initCommand one await after the other, with the cache,  *)
(*                 the clock, unreadable files and queries in between      *)
(*   SpecRepeat    the queries, one of them remembered with its answer     *)
(*   SpecCommands  initCommand one await after the other in several        *)
(*                 working directories, with /list, /info and /test        *)
(*                 arriving at any moment                                  *)
(*   SpecGenerate  the OllamaClient and generateCommand                    *)
(* At most one initCommand is under way; the clock counts minutes and      *)
(* moves, like the working directory, while the REPL is at its prompt.     *)
(* A JSON text is the sequence of its tokens.                              *)
(***************************************************************************)
EXTENDS Naturals, Sequences, FiniteSets, TLC

VARIABLES
    scannedFiles,   \* what scanProject returns for the project on disk
    projectMap,     \* REPLState.projectMap: Null or the installed ProjectMap
    call,           \* the last query made: [op, ...arguments]
    result,         \* what that query returned (or Threw)
    now,            \* Date.now(), in minutes
    disk,           \* the file .reactgen/project-map.json
    unreadable,     \* the relative paths fs.readFile fails on
    initCommand,    \* the initCommand under way: where it is, and its locals
    persisted,      \* history: the project map last handed to JSON.stringify
    asked,          \* history: a query remembered with the answer it got
    projectRoot,    \* REPLState.projectRoot: Null or a directory
    isInitialized,  \* REPLState.isInitialized
    cwd,            \* process.cwd()
    command,        \* the last /list, /info or /test handleCommand handled
    isReady,        \* OllamaClient.isReady
    llm,            \* the last call of the OllamaClient, and history
    generate,       \* the last generateCommand: its locals and how it ended
    componentsDir   \* the directory src/components of the project

\* REPLState.projectRoot and REPLState.isInitialized
root == <<projectRoot, isInitialized>>

\* What no initCommand touches.
outside == <<cwd, command, isReady, llm, generate, componentsDir>>

vars == <<scannedFiles, projectMap, call, result, now, disk, unreadable,
          initCommand, persisted, asked, root, outside>>

\* What a query leaves alone.
state ==
    <<scannedFiles, projectMap, now, disk, unreadable, initCommand, persisted, asked,
      root, outside>>

----------------------------------------------------------------------------
(* Strings                                                                 *)

\* The characters of the model in UTF-16 code unit order (all are ASCII).
Ascii == " #-./0123456789:@ABCDEFGHIJKLMNOPQRSTUVWXYZ_abcdefghijklmnopqrstuvwxyz"

UpperCase == "ABCDEFGHIJKLMNOPQRSTUVWXYZ"

LowerCase == "abcdefghijklmnopqrstuvwxyz"

Digits == "0123456789"

CharAt(s, i) == SubSeq(s, i, i)

CharsOf(s) == { CharAt(s, i) : i \in 1..Len(s) }

\* String.prototype.charCodeAt, as the rank of the character in Ascii.
CodeOf == [ c \in CharsOf(Ascii) |-> CHOOSE i \in 1..Len(Ascii) : CharAt(Ascii, i) = c ]

LowerOf == [ c \in CharsOf(Ascii) |->
               IF c \in CharsOf(UpperCase)
               THEN CharAt(LowerCase, CHOOSE i \in 1..26 : CharAt(UpperCase, i) = c)
               ELSE c ]

RECURSIVE ToLowerCase(_)
ToLowerCase(s) ==
    IF s = "" THEN "" ELSE LowerOf[Head(s)] \o ToLowerCase(Tail(s))

StartsWith(s, p) ==
    Len(p) <= Len(s) /\ SubSeq(s, 1, Len(p)) = p

EndsWith(s, p) ==
    Len(p) <= Len(s) /\ SubSeq(s, Len(s) - Len(p) + 1, Len(s)) = p

Includes(s, p) ==
    \E i \in 1..(Len(s) + 1) :
        i + Len(p) - 1 <= Len(s) /\ SubSeq(s, i, i + Len(p) - 1) = p

\* String.prototype.split with a one-character separator.
RECURSIVE SplitFrom(_, _, _)
SplitFrom(s, sep, cur) ==
    IF s = "" THEN <<cur>>
    ELSE IF Head(s) = sep THEN <<cur>> \o SplitFrom(Tail(s), sep, "")
    ELSE SplitFrom(Tail(s), sep, cur \o Head(s))

Split(s, sep) == SplitFrom(s, sep, "")

\* Array.prototype.join
RECURSIVE Join(_, _)
Join(parts, sep) ==
    IF parts = <<>> THEN ""
    ELSE IF Len(parts) = 1 THEN parts[1]
    ELSE parts[1] \o sep \o Join(Tail(parts), sep)

\* The comparison Array.prototype.sort() uses with no comparator: by code units.
RECURSIVE StrLess(_, _)
StrLess(a, b) ==
    IF b = "" THEN FALSE
    ELSE IF a = "" THEN TRUE
    ELSE IF Head(a) = Head(b) THEN StrLess(Tail(a), Tail(b))
    ELSE CodeOf[Head(a)] < CodeOf[Head(b)]

StrLeq(a, b) == a = b \/ StrLess(a, b)

\* Array.prototype.sort() on strings (insertion sort; on strings a stable sort
\* and any other sort give the same array).
RECURSIVE InsertSorted(_, _)
InsertSorted(sorted, x) ==
    IF sorted = <<>> THEN <<x>>
    ELSE IF StrLess(x, Head(sorted)) THEN <<x>> \o sorted
    ELSE <<Head(sorted)>> \o InsertSorted(Tail(sorted), x)

RECURSIVE SortStrings(_)
SortStrings(xs) ==
    IF xs = <<>> THEN <<>>
    ELSE InsertSorted(SortStrings(SubSeq(xs, 1, Len(xs) - 1)), xs[Len(xs)])

\* [...new Set(xs)]: the first occurrence of each element, in order.
RECURSIVE Dedupe(_)
Dedupe(xs) ==
    IF xs = <<>> THEN <<>>
    ELSE LET init == Dedupe(SubSeq(xs, 1, Len(xs) - 1))
             x == xs[Len(xs)]
         IN  IF \E i \in 1..Len(init) : init[i] = x THEN init ELSE Append(init, x)

Range(xs) == { xs[i] : i \in 1..Len(xs) }

\* Array.prototype.filter and map, for a sequence xs.
Filter(xs, Keep(_)) == SelectSeq(xs, Keep)

Map(xs, F(_)) == [ i \in 1..Len(xs) |-> F(xs[i]) ]

\* str.replace(/\.(tsx?|jsx?)$/, ''): drop a final .ts, .tsx, .js or .jsx.
StripExtension(name) ==
    IF EndsWith(name, ".tsx") \/ EndsWith(name, ".jsx")
    THEN SubSeq(name, 1, Len(name) - 4)
    ELSE IF EndsWith(name, ".ts") \/ EndsWith(name, ".js")
    THEN SubSeq(name, 1, Len(name) - 3)
    ELSE name

\* filePath.split('/').pop()
LastSegment(path) == LET parts == Split(path, "/") IN parts[Len(parts)]

\* filePath.split('/').pop()?.replace(/\.(tsx?|jsx?)$/, '')
StrippedName(path) == StripExtension(LastSegment(path))

----------------------------------------------------------------------------
(* JavaScript values                                                       *)

Null == [t |-> "null"]

Undefined == [t |-> "undefined"]

JSString(s) == [t |-> "string", str |-> s]

JSNumber(n) == [t |-> "number", num |-> n]

JSArray(xs) == [t |-> "array", items |-> xs]

\* An object: its own enumerable properties, in insertion order.
JSObject(props) == [t |-> "object", props |-> props]

EmptyObject == JSObject(<<>>)

\* typeof v === 'object' (true of arrays and of null as well)
TypeofObject(v) == v.t \in {"object", "array", "null"}

\* ToBoolean(v), as `if (v)`, `!v` and `a && b` apply it.
Truthy(v) ==
    CASE v.t = "object" -> TRUE
      [] v.t = "array" -> TRUE
      [] v.t = "string" -> v.str # ""
      [] v.t = "number" -> v.num # 0
      [] OTHER -> FALSE

\* Object.keys order, which is the order of `for (const key in obj)`.
Keys(obj) == IF obj.t = "object" THEN [ i \in 1..Len(obj.props) |-> obj.props[i].key ] ELSE <<>>

HasOwn(obj, key) == obj.t = "object" /\ \E i \in 1..Len(obj.props) : obj.props[i].key = key

\* obj[key]
Get(obj, key) ==
    IF HasOwn(obj, key)
    THEN obj.props[CHOOSE i \in 1..Len(obj.props) : obj.props[i].key = key].val
    ELSE Undefined

\* obj[key] = val: an existing property keeps its place, a new one is added last.
Put(obj, key, val) ==
    IF HasOwn(obj, key)
    THEN JSObject([ i \in 1..Len(obj.props) |->
                      IF obj.props[i].key = key THEN [key |-> key, val |-> val]
                      ELSE obj.props[i] ])
    ELSE JSObject(Append(obj.props, [key |-> key, val |-> val]))

----------------------------------------------------------------------------
(* parseFile                                                               *)

\* A file's content is modelled by what @babel/parser and the traversal get
\* from it: whether it parses, and the export names and import sources the
\* visitors push, in source order.
SourceText(syntaxOk, exports, imports, lines) ==
    [syntaxOk |-> syntaxOk, exports |-> exports, imports |-> imports, lines |-> lines]

\* The file type, decided from the path and the exports.
DetectType(filePath, exports) ==
    IF Includes(filePath, ".test.") \/ Includes(filePath, ".spec.") THEN "test"
    ELSE IF Len(exports) > 0 THEN "component"
    ELSE "utility"

\* parseFile keeping what the content holds although it does not parse.
ParseFile_KeepsFound(content, filePath) ==
    IF content.syntaxOk
    THEN [exports |-> content.exports,
          imports |-> content.imports,
          type |-> DetectType(filePath, content.exports)]
    ELSE [exports |-> content.exports, imports |-> content.imports, type |-> "utility"]

\* parseFile(content, filePath): babel.parse throws on a syntax error, before
\* anything is pushed and before the type is decided; the catch returns the
\* initial result.
ParseFile(content, filePath) ==
    IF content.syntaxOk
    THEN [exports |-> content.exports,
          imports |-> content.imports,
          type |-> DetectType(filePath, content.exports)]
    ELSE [exports |-> <<>>, imports |-> <<>>, type |-> "utility"]

----------------------------------------------------------------------------
(* buildProjectMap                                                         *)

\* The entry buildProjectMap stores for a file.
FileEntry(file, parsed) ==
    JSObject(<< [key |-> "path", val |-> JSString(file.path)],
                [key |-> "type", val |-> JSString(parsed.type)],
                [key |-> "lines", val |-> JSNumber(file.lines)],
                [key |-> "exports", val |-> JSArray(parsed.exports)],
                [key |-> "imports", val |-> JSArray(parsed.imports)],
                [key |-> "usedBy", val |-> JSArray(<<>>)] >>)

\* The walk along parts[0..n-2], creating what is missing, and the assignment
\* current[fileName] = entry at its end, as the updated object.
RECURSIVE Attach(_, _, _)
Attach(current, parts, entry) ==
    IF Len(parts) = 1
    THEN Put(current, parts[1], entry)
    ELSE LET part == parts[1]
             child == IF Truthy(Get(current, part)) THEN Get(current, part) ELSE EmptyObject
         IN  Put(current, part, Attach(child, Tail(parts), entry))

\* The loop's iteration without the test of the file's type.
AddFile_AllExports(map, file) ==
    LET parsed == ParseFile(file.content, file.path)
    IN  [structure |-> Attach(map.structure, Split(file.path, "/"), FileEntry(file, parsed)),
         files |-> Append(map.files, file.path),
         components |-> map.components \o parsed.exports]

\* One iteration of the loop over the scanned files.
AddFile(map, file) ==
    LET parsed == ParseFile(file.content, file.path)
    IN  [structure |-> Attach(map.structure, Split(file.path, "/"), FileEntry(file, parsed)),
         files |-> Append(map.files, file.path),
         components |-> IF parsed.type = "component" /\ Len(parsed.exports) > 0
                        THEN map.components \o parsed.exports
                        ELSE map.components]

RECURSIVE FoldFiles(_, _)
FoldFiles(map, files) ==
    IF files = <<>> THEN map ELSE FoldFiles(AddFile(map, Head(files)), Tail(files))

\* A decimal digit, and a number, as text.
DigitText(d) == SubSeq(Digits, d + 1, d + 1)

RECURSIVE NumberText(_)
NumberText(n) == IF n < 10 THEN DigitText(n) ELSE NumberText(n \div 10) \o DigitText(n % 10)

IsDigit(c) == \E d \in 0..9 : DigitText(d) = c

DigitValue(c) == CHOOSE d \in 0..9 : DigitText(d) = c

\* The number a text of digits denotes.
RECURSIVE TextNumber(_)
TextNumber(s) ==
    IF s = "" THEN 0
    ELSE 10 * TextNumber(SubSeq(s, 1, Len(s) - 1)) + DigitValue(SubSeq(s, Len(s), Len(s)))

\* new Date(t).toISOString(), for a time t of less than sixty minutes.
ToISOString(t) ==
    "2026-01-01T00:" \o DigitText(t \div 10) \o DigitText(t % 10) \o ":00.000Z"

\* new Date(text).getTime(): the time, or NaN for a text that is no date.
DateParse(text) ==
    IF /\ Len(text) = 24
       /\ SubSeq(text, 1, 14) = "2026-01-01T00:"
       /\ SubSeq(text, 17, 24) = ":00.000Z"
       /\ IsDigit(SubSeq(text, 15, 15)) /\ IsDigit(SubSeq(text, 16, 16))
    THEN [isNaN |-> FALSE, time |-> TextNumber(SubSeq(text, 15, 16))]
    ELSE [isNaN |-> TRUE, time |-> 0]

\* process.cwd(), the rootDir of the project.
RootDir == "/project"

\* What buildProjectMap has when its loop starts.
EmptyMap == [structure |-> EmptyObject, files |-> <<>>, components |-> <<>>]

\* The object buildProjectMap returns for what its loop built.
ReturnedMap(built) ==
    [version |-> "1.0",
     scannedAt |-> ToISOString(now),
     rootDir |-> cwd,
     structure |-> built.structure,
     files |-> built.files,
     components |-> built.components]

\* buildProjectMap, given what scanProject returned.
BuildProjectMap(files) == ReturnedMap(FoldFiles(EmptyMap, files))

----------------------------------------------------------------------------
(* JSON.stringify and JSON.parse                                           *)

\* A JSON text is the sequence of its tokens: the four brackets, strings and
\* numbers (a number as its decimal digits).
Token(kind, text) == [kind |-> kind, text |-> text]

RECURSIVE StringTokens(_)
StringTokens(items) ==
    IF items = <<>> THEN <<>> ELSE <<Token("string", Head(items))>> \o StringTokens(Tail(items))

\* JSON.stringify without the properties whose value is an empty array.
RECURSIVE Stringify_DropsEmptyArrays(_)
Stringify_DropsEmptyArrays(value) ==
    LET RECURSIVE Members(_)
        Members(props) ==
            IF props = <<>> THEN <<>>
            ELSE (IF Head(props).val.t = "undefined" \/ Head(props).val = JSArray(<<>>) THEN <<>>
                  ELSE <<Token("string", Head(props).key)>>
                           \o Stringify_DropsEmptyArrays(Head(props).val))
                     \o Members(Tail(props))
    IN  CASE value.t = "string" -> <<Token("string", value.str)>>
          [] value.t = "number" -> <<Token("number", NumberText(value.num))>>
          [] value.t = "array" -> <<Token("[", "")>> \o StringTokens(value.items) \o <<Token("]", "")>>
          [] value.t = "object" -> <<Token("{", "")>> \o Members(value.props) \o <<Token("}", "")>>
          [] OTHER -> <<Token("null", "")>>

\* JSON.stringify(value): the members of an object in the order of its
\* properties, one whose value is undefined left out.
RECURSIVE Stringify(_)
Stringify(value) ==
    LET RECURSIVE Members(_)
        Members(props) ==
            IF props = <<>> THEN <<>>
            ELSE (IF Head(props).val.t = "undefined" THEN <<>>
                  ELSE <<Token("string", Head(props).key)>> \o Stringify(Head(props).val))
                     \o Members(Tail(props))
    IN  CASE value.t = "string" -> <<Token("string", value.str)>>
          [] value.t = "number" -> <<Token("number", NumberText(value.num))>>
          [] value.t = "array" -> <<Token("[", "")>> \o StringTokens(value.items) \o <<Token("]", "")>>
          [] value.t = "object" -> <<Token("{", "")>> \o Members(value.props) \o <<Token("}", "")>>
          [] OTHER -> <<Token("null", "")>>

\* What the parser gives for a text: the value read and the tokens left, or the
\* SyntaxError.
Parsed(value, rest) == [ok |-> TRUE, value |-> value, rest |-> rest]

SyntaxError == [ok |-> FALSE, value |-> Undefined, rest |-> <<>>]

\* The elements of an array, up to its closing bracket (the arrays of a project
\* map hold strings).
RECURSIVE ParseElements(_, _)
ParseElements(tokens, items) ==
    IF tokens = <<>> THEN SyntaxError
    ELSE IF Head(tokens).kind = "]" THEN Parsed(JSArray(items), Tail(tokens))
    ELSE IF Head(tokens).kind = "string"
         THEN ParseElements(Tail(tokens), Append(items, Head(tokens).text))
    ELSE SyntaxError

\* A value, and the members of an object up to its closing brace.
RECURSIVE ParseValue(_)
RECURSIVE ParseMembers(_, _)
ParseValue(tokens) ==
    IF tokens = <<>> THEN SyntaxError
    ELSE LET first == Head(tokens)
         IN  CASE first.kind = "string" -> Parsed(JSString(first.text), Tail(tokens))
               [] first.kind = "number" -> Parsed(JSNumber(TextNumber(first.text)), Tail(tokens))
               [] first.kind = "null" -> Parsed(Null, Tail(tokens))
               [] first.kind = "[" -> ParseElements(Tail(tokens), <<>>)
               [] first.kind = "{" -> ParseMembers(Tail(tokens), EmptyObject)
               [] OTHER -> SyntaxError

ParseMembers(tokens, object) ==
    IF tokens = <<>> THEN SyntaxError
    ELSE IF Head(tokens).kind = "}" THEN Parsed(object, Tail(tokens))
    ELSE IF Head(tokens).kind = "string"
         THEN LET member == ParseValue(Tail(tokens))
              IN  IF member.ok
                  THEN ParseMembers(member.rest, Put(object, Head(tokens).text, member.value))
                  ELSE SyntaxError
    ELSE SyntaxError

\* JSON.parse(text): the value, when the text is one value and nothing more.
JSONParse(text) ==
    LET parsed == ParseValue(text)
    IN  IF parsed.ok /\ parsed.rest = <<>> THEN parsed ELSE SyntaxError

\* A project map as the object JSON.stringify is given: its properties in the
\* order of the object literal buildProjectMap returns.
MapObject(map) ==
    JSObject(<< [key |-> "version", val |-> JSString(map.version)],
                [key |-> "scannedAt", val |-> JSString(map.scannedAt)],
                [key |-> "rootDir", val |-> JSString(map.rootDir)],
                [key |-> "structure", val |-> map.structure],
                [key |-> "files", val |-> JSArray(map.files)],
                [key |-> "components", val |-> JSArray(map.components)] >>)

\* The object JSON.parse gave, used as a ProjectMap.
AsProjectMap(object) ==
    [version |-> Get(object, "version").str,
     scannedAt |-> Get(object, "scannedAt").str,
     rootDir |-> Get(object, "rootDir").str,
     structure |-> Get(object, "structure"),
     files |-> Get(object, "files").items,
     components |-> Get(object, "components").items]

----------------------------------------------------------------------------
(* AutoCompleter                                                           *)

\* The template catalog, in its declared order.
TEMPLATES ==
    << "form:login", "form:signup", "form:contact", "form:search",
       "button:primary", "button:secondary", "button:ghost",
       "card:simple", "card:product", "card:user",
       "modal:confirm", "modal:info", "modal:form",
       "nav:header", "nav:sidebar", "nav:breadcrumbs" >>

\* \w
WordChars == CharsOf(UpperCase) \cup CharsOf(LowerCase) \cup CharsOf(Digits) \cup {"_"}

\* [a-zA-Z0-9:-]
TemplateChars == CharsOf(UpperCase) \cup CharsOf(LowerCase) \cup CharsOf(Digits) \cup {":", "-"}

\* [a-zA-Z0-9_-]
FileChars == WordChars \cup {"-"}

\* The class of the `.` pattern with '#' let in.
FolderChars_WithHash == WordChars \cup {".", "/", "-", "#"}

\* [a-zA-Z0-9._/-]
FolderChars == WordChars \cup {".", "/", "-"}

AllIn(s, chars) == \A i \in 1..Len(s) : CharAt(s, i) \in chars

NoMatch == [matched |-> FALSE, group |-> ""]

\* text.match(/T([class]*)$/) for a trigger character T: the leftmost T all of
\* whose followers, up to the end of the text, are in the class; group 1 is
\* what follows it.
MatchToken(text, trigger, chars) ==
    LET starts == { i \in 1..Len(text) :
                      /\ CharAt(text, i) = trigger
                      /\ AllIn(SubSeq(text, i + 1, Len(text)), chars) }
    IN  IF starts = {} THEN NoMatch
        ELSE LET i == CHOOSE j \in starts : \A k \in starts : j <= k
             IN  [matched |-> TRUE, group |-> SubSeq(text, i + 1, Len(text))]

\* completeTemplate with includes in the place of startsWith.
CompleteTemplate_Contains(text) ==
    LET matches == Filter(TEMPLATES, LAMBDA t : Includes(t, text))
    IN  Map(matches, LAMBDA t : "@" \o t)

\* completeTemplate(text)
CompleteTemplate(text) ==
    LET matches == Filter(TEMPLATES, LAMBDA t : StartsWith(t, text))
    IN  Map(matches, LAMBDA t : "@" \o t)

\* completeFile with startsWith in the place of includes.
CompleteFile_PrefixOnly(map, text) ==
    IF map = Null THEN <<>>
    ELSE LET searchText == ToLowerCase(text)
             hits == Filter(map.files,
                            LAMBDA filePath :
                                StartsWith(ToLowerCase(StrippedName(filePath)), searchText))
             matches == Map(hits, LAMBDA filePath : "#" \o StrippedName(filePath))
         IN  SortStrings(Dedupe(matches))

\* completeFile(text)
CompleteFile(map, text) ==
    IF map = Null THEN <<>>
    ELSE LET searchText == ToLowerCase(text)
             hits == Filter(map.files,
                            LAMBDA filePath :
                                Includes(ToLowerCase(StrippedName(filePath)), searchText))
             matches == Map(hits, LAMBDA filePath : "#" \o StrippedName(filePath))
         IN  SortStrings(Dedupe(matches))

\* getFoldersIn without the final sort.
GetFoldersIn_Unsorted(structure) ==
    LET isFolder(key) == LET item == Get(structure, key)
                         IN  TypeofObject(item) /\ ~Truthy(Get(item, "path"))
    IN  Filter(Keys(structure), isFolder)

\* getFoldersIn(structure)
GetFoldersIn(structure) ==
    LET isFolder(key) == LET item == Get(structure, key)
                         IN  TypeofObject(item) /\ ~Truthy(Get(item, "path"))
    IN  SortStrings(Filter(Keys(structure), isFolder))

\* The loop going on to the next part where it should return.
RECURSIVE Navigate_PastMissing(_, _, _)
Navigate_PastMissing(current, parts, skipEmpty) ==
    IF parts = <<>> THEN current
    ELSE IF Truthy(Get(current, Head(parts)))
         THEN Navigate_PastMissing(Get(current, Head(parts)), Tail(parts), skipEmpty)
    ELSE Navigate_PastMissing(current, Tail(parts), skipEmpty)

\* The loop `for (const part of parts)` of completeFolder, which skips empty
\* parts; of getFilesInFolder and of resolveReference, which do not (skipEmpty
\* FALSE).  Undefined stands for the early return.
RECURSIVE Navigate(_, _, _)
Navigate(current, parts, skipEmpty) ==
    IF parts = <<>> THEN current
    ELSE IF skipEmpty /\ Head(parts) = "" THEN Navigate(current, Tail(parts), skipEmpty)
    ELSE IF Truthy(Get(current, Head(parts)))
         THEN Navigate(Get(current, Head(parts)), Tail(parts), skipEmpty)
    ELSE Undefined

\* completeFolder comparing the folder names as they are with the text typed.
CompleteFolder_CaseSensitive(map, text) ==
    IF map = Null THEN <<>>
    ELSE LET parts == Split(text, ".")
             currentPath == SubSeq(parts, 1, Len(parts) - 1)
             searchText == parts[Len(parts)]
             currentStructure == Navigate(map.structure, currentPath, TRUE)
         IN  IF currentStructure = Undefined THEN <<>>
             ELSE LET folders == GetFoldersIn(currentStructure)
                      matches == Filter(folders, LAMBDA f : StartsWith(f, searchText))
                      prefix == IF Len(currentPath) > 0
                                THEN "." \o Join(currentPath, ".") \o "."
                                ELSE "."
                  IN  Map(matches, LAMBDA f : prefix \o f)

\* completeFolder(text)
CompleteFolder(map, text) ==
    IF map = Null THEN <<>>
    ELSE LET parts == Split(text, ".")
             currentPath == SubSeq(parts, 1, Len(parts) - 1)
             searchText == ToLowerCase(parts[Len(parts)])
             currentStructure == Navigate(map.structure, currentPath, TRUE)
         IN  IF currentStructure = Undefined THEN <<>>
             ELSE LET folders == GetFoldersIn(currentStructure)
                      matches == Filter(folders,
                                        LAMBDA f : StartsWith(ToLowerCase(f), searchText))
                      prefix == IF Len(currentPath) > 0
                                THEN "." \o Join(currentPath, ".") \o "."
                                ELSE "."
                  IN  Map(matches, LAMBDA f : prefix \o f)

\* complete matching the whole line, whatever the cursor.
Complete_WholeLine(map, line, cursorPos) ==
    LET templateMatch == MatchToken(line, "@", TemplateChars)
        fileMatch == MatchToken(line, "#", FileChars)
        folderMatch == MatchToken(line, ".", FolderChars)
    IN  IF templateMatch.matched THEN CompleteTemplate(templateMatch.group)
        ELSE IF fileMatch.matched THEN CompleteFile(map, fileMatch.group)
        ELSE IF folderMatch.matched THEN CompleteFolder(map, folderMatch.group)
        ELSE <<>>

\* complete(line, cursorPos), for 0 <= cursorPos <= line.length
Complete(map, line, cursorPos) ==
    LET textBeforeCursor == SubSeq(line, 1, cursorPos)
        templateMatch == MatchToken(textBeforeCursor, "@", TemplateChars)
        fileMatch == MatchToken(textBeforeCursor, "#", FileChars)
        folderMatch == MatchToken(textBeforeCursor, ".", FolderChars)
    IN  IF templateMatch.matched THEN CompleteTemplate(templateMatch.group)
        ELSE IF fileMatch.matched THEN CompleteFile(map, fileMatch.group)
        ELSE IF folderMatch.matched THEN CompleteFolder(map, folderMatch.group)
        ELSE <<>>

\* What a call that ended in an uncaught TypeError gives its caller.
Threw == [t |-> "TypeError"]

\* The loop `for (const key in currentStructure)` of getFilesInFolder: the
\* stripped filenames pushed, or the TypeError of item.path.split when
\* item.path is not a string.
RECURSIVE FileNamesIn(_, _)
FileNamesIn(structure, keys) ==
    IF keys = <<>> THEN [threw |-> FALSE, files |-> <<>>]
    ELSE LET item == Get(structure, Head(keys))
             path == Get(item, "path")
             rest == FileNamesIn(structure, Tail(keys))
         IN  IF Truthy(item) /\ TypeofObject(item) /\ Truthy(path)
             THEN IF path.t # "string" THEN [threw |-> TRUE, files |-> <<>>]
                  ELSE IF rest.threw THEN rest
                  ELSE [threw |-> FALSE, files |-> <<StrippedName(path.str)>> \o rest.files]
             ELSE rest

\* getFilesInFolder(folderPath)
GetFilesInFolder(map, folderPath) ==
    IF map = Null THEN JSArray(<<>>)
    ELSE LET parts == Filter(Split(folderPath, "."), LAMBDA p : p # "")
             currentStructure == Navigate(map.structure, parts, FALSE)
         IN  IF currentStructure = Undefined THEN JSArray(<<>>)
             ELSE LET found == FileNamesIn(currentStructure, Keys(currentStructure))
                  IN  IF found.threw THEN Threw ELSE JSArray(SortStrings(found.files))

\* reference.match(/^(\.[\w.]+)?#(\w+)$/): group 1 is folder ("" when the
\* group did not take part), group 2 is name.
MatchReference(reference) ==
    LET hashes == { i \in 1..Len(reference) : CharAt(reference, i) = "#" }
    IN  IF Cardinality(hashes) # 1 THEN [matched |-> FALSE, folder |-> "", name |-> ""]
        ELSE LET h == CHOOSE i \in hashes : TRUE
                 folder == SubSeq(reference, 1, h - 1)
                 name == SubSeq(reference, h + 1, Len(reference))
                 folderOk == \/ folder = ""
                             \/ /\ Len(folder) >= 2
                                /\ Head(folder) = "."
                                /\ AllIn(Tail(folder), WordChars \cup {"."})
             IN  IF folderOk /\ name # "" /\ AllIn(name, WordChars)
                 THEN [matched |-> TRUE, folder |-> folder, name |-> name]
                 ELSE [matched |-> FALSE, folder |-> "", name |-> ""]

\* The loop over projectMap.files of resolveReference.
RECURSIVE FirstFileNamed(_, _)
FirstFileNamed(files, filename) ==
    IF files = <<>> THEN Null
    ELSE IF StrippedName(Head(files)) = filename THEN JSString(Head(files))
    ELSE FirstFileNamed(Tail(files), filename)

\* The loop `for (const key in currentStructure)` of resolveReference:
\* item.path.split is a TypeError when item.path is not a string.
RECURSIVE FindChildNamed(_, _, _)
FindChildNamed(structure, keys, filename) ==
    IF keys = <<>> THEN Null
    ELSE LET item == Get(structure, Head(keys))
             path == Get(item, "path")
         IN  IF Truthy(item) /\ TypeofObject(item) /\ Truthy(path)
             THEN IF path.t # "string" THEN Threw
                  ELSE IF StrippedName(path.str) = filename THEN path
                  ELSE FindChildNamed(structure, Tail(keys), filename)
             ELSE FindChildNamed(structure, Tail(keys), filename)

\* resolveReference(reference)
ResolveReference(map, reference) ==
    IF map = Null THEN Null
    ELSE LET match == MatchReference(reference)
         IN  IF ~match.matched THEN Null
             ELSE IF match.folder = "" THEN FirstFileNamed(map.files, match.name)
             ELSE LET parts == Split(Tail(match.folder), ".")
                      currentStructure == Navigate(map.structure, parts, FALSE)
                  IN  IF currentStructure = Undefined THEN Null
                      ELSE FindChildNamed(currentStructure, Keys(currentStructure), match.name)

----------------------------------------------------------------------------
(* infoCommand                                                             *)

\* searchStructure(obj, target) of findFileInMap, over the keys left to
\* visit: the first file entry, depth first in key order, whose filename or
\* stripped filename is the target's; filePath.split is a TypeError when
\* the `path` of the entry is not a string.
RECURSIVE SearchStructure(_, _, _)
SearchStructure(obj, keys, target) ==
    IF keys = <<>> THEN Null
    ELSE LET item == Get(obj, Head(keys))
             rest == SearchStructure(obj, Tail(keys), target)
         IN  IF ~TypeofObject(item) THEN rest
             ELSE IF item = Null THEN Threw
             ELSE IF HasOwn(item, "path")
             THEN LET filePath == Get(item, "path")
                  IN  IF filePath.t # "string" THEN Threw
                      ELSE IF \/ LastSegment(filePath.str) = target
                              \/ StrippedName(filePath.str) = StripExtension(target)
                      THEN item
                      ELSE rest
             ELSE LET found == SearchStructure(item, Keys(item), target)
                  IN  IF found = Threw THEN Threw
                      ELSE IF Truthy(found) THEN found
                      ELSE rest

\* findFileInMap(projectMap, filename)
FindFileInMap(map, filename) ==
    SearchStructure(map.structure, Keys(map.structure), filename)

\* infoCommand(state, filename): the path after `File:` as a string, null
\* when no file is displayed, or the TypeError that leaves the command.
InfoCommand(map, filename) ==
    IF map = Null THEN Null
    ELSE LET isReference == \/ StartsWith(filename, "#")
                            \/ Includes(filename, ".") /\ Includes(filename, "#")
             resolved == IF isReference THEN ResolveReference(map, filename) ELSE Null
             searchFilename ==
                 IF isReference /\ resolved # Threw /\ Truthy(resolved)
                 THEN IF StrippedName(resolved.str) # "" THEN StrippedName(resolved.str)
                      ELSE filename
                 ELSE filename
         IN  IF isReference /\ resolved = Threw THEN Threw
             ELSE IF isReference /\ ~Truthy(resolved) THEN Null
             ELSE LET file == FindFileInMap(map, searchFilename)
                  IN  IF file = Threw THEN Threw
                      ELSE IF ~Truthy(file) THEN Null
                      ELSE Get(file, "path")

----------------------------------------------------------------------------
(* The projects, lines and references the model is run on                  *)

\* The most files a scanned project holds.
MaxFiles == 2

\* Relative paths fast-glob can return for the patterns of scanProject.
ScanPaths ==
    { "src/Button.tsx", "src/ui/Button.tsx", "src/ui/Button.jsx", "src/ui/button.tsx",
      "src/Lib/Card.tsx", "src/ui/path/Icon.tsx", "src/Button.test.tsx",
      "app/nav-bar.tsx" }

\* The paths whose content varies.
VariedPaths == { "src/Button.tsx", "src/Button.test.tsx", "app/nav-bar.tsx" }

\* An identifier made from a file's name: its word characters.
RECURSIVE WordCharsOf(_)
WordCharsOf(s) ==
    IF s = "" THEN ""
    ELSE (IF Head(s) \in WordChars THEN Head(s) ELSE "") \o WordCharsOf(Tail(s))

ExportName(path) == WordCharsOf(StrippedName(path))

\* A module that parses and exports one name.
PlainSource(path) == SourceText(TRUE, <<ExportName(path)>>, <<"react">>, 3)

\* Other contents: an import and an export with a syntax error beside them,
\* no export, two exports.
OtherSources(path) ==
    { SourceText(FALSE, <<ExportName(path)>>, <<"react">>, 2),
      SourceText(TRUE, <<>>, <<"react">>, 1),
      SourceText(TRUE, <<ExportName(path), ExportName(path) \o "Props">>, <<>>, 5) }

\* An element of what scanProject returns.
ScannedFile(path, content) == [path |-> path, content |-> content, lines |-> content.lines]

CandidateFiles ==
    { ScannedFile(p, PlainSource(p)) : p \in ScanPaths }
        \cup UNION { { ScannedFile(p, c) : c \in OtherSources(p) } : p \in VariedPaths }

\* What scanProject can return: files in any order, no path twice.
Scans ==
    UNION { { fs \in [1..n -> CandidateFiles] :
                \A i, j \in 1..n : i # j => fs[i].path # fs[j].path } : n \in 0..MaxFiles }

\* The lines typed; complete is called with the cursor anywhere in them.
Lines ==
    { "@form:s", "go @nav:x", "#uTt", "#nav-", ".src.U", ".src..u", ".SRC.u", "a.b #",
      ".src#B", "@f#.s@" }

\* The references resolved.
References ==
    { "#Button", "#button", "#nav-bar", "#Button.test", "#Icon", "#", "Button",
      ".src#Button", ".src.ui#Button", ".src.ui#Icon", ".src#Icon", ".src.ui.path#Icon",
      ".src.Lib#Card", ".src.lib#Card", ".src..ui#Button", ".app#nav-bar", "" }

\* The folder paths getFilesInFolder is asked for.
FolderPaths == { "", "src", "app", "src.ui", "src.ui.path", "src.Lib", "src.lib", "src..ui" }

----------------------------------------------------------------------------
(* initCommand                                                             *)

\* The age, in minutes, from which a persisted project map is scanned anew.
StaleMinutes == 5

\* The last minute of the clock.
MaxClock == 5

\* .reactgen/project-map.json: absent, or a file holding a text.
NoFile == [exists |-> FALSE, text |-> <<>>]

FileWith(text) == [exists |-> TRUE, text |-> text]

\* A file that is no JSON text: an object that is never closed.
CorruptFile == FileWith(<<Token("{", "")>>)

\* An initCommand at one of its awaits: force, the files scanProject has read,
\* what the loop of buildProjectMap has built (then the map it returned); and,
\* for the record, how the last one ended and the project map and the file it
\* found when it started.
InitAt(pc, force, files, built, outcome, before) ==
    [pc |-> pc, force |-> force, files |-> files, built |-> built,
     outcome |-> outcome, before |-> before]

NoInit == InitAt("idle", FALSE, <<>>, EmptyMap, "none", [map |-> Null, disk |-> NoFile])

\* The initCommand has returned.
Returned(outcome) == InitAt("idle", FALSE, <<>>, EmptyMap, outcome, initCommand.before)

\* No /list, /info or /test has been handled.
NoCommand == [name |-> "none", printed |-> "", ran |-> FALSE, returned |-> TRUE]

\* No method of the OllamaClient has been called, and no initialize has
\* returned.
NoCall ==
    [op |-> "none", wasReady |-> FALSE, threw |-> FALSE, message |-> "", returned |-> FALSE]

\* src/components does not exist.
NoDirectory == [exists |-> FALSE, files |-> {}]

\* No generateCommand has run.
NoGenerate ==
    [outcome |-> "none", input |-> "", confirm |-> FALSE, checked |-> <<>>,
     filesToCreate |-> <<>>, written |-> <<>>, before |-> NoDirectory]

\* No query has been remembered.
NotAsked == [call |-> [op |-> "none"], result |-> Undefined, map |-> Null, others |-> FALSE]

\* A directory that has a package.json and no React file.
OtherDir == "/other"

\* A directory that has no package.json.
BareDir == "/bare"

\* The directories the REPL finds itself in.
Directories == {RootDir, OtherDir, BareDir}

\* fs.access(path.join(cwd, 'package.json')) succeeds.
HasPackageJson(dir) == dir # BareDir

\* What scanProject(cwd) returns.
ProjectFiles == IF cwd = RootDir THEN scannedFiles ELSE <<>>

\* The file .reactgen/project-map.json of cwd.
MapFile == IF cwd = RootDir THEN disk ELSE NoFile

\* The existing map taken at an age of five minutes as well.
CachedProjectMap_UpToFive(force) ==
    IF force \/ ~MapFile.exists THEN Null
    ELSE LET parsed == JSONParse(MapFile.text)
             scannedAt == Get(parsed.value, "scannedAt")
             date == IF scannedAt.t = "string" THEN DateParse(scannedAt.str)
                     ELSE [isNaN |-> TRUE, time |-> 0]
         IN  IF parsed.ok /\ ~date.isNaN /\ now - date.time <= StaleMinutes
             THEN AsProjectMap(parsed.value)
             ELSE Null

\* Lines 27-52 of initCommand: the existing map it installs, Null when it goes
\* on to scan (force, no file, no JSON, no date, or an age of five minutes or
\* more; every exception is caught at line 53).
CachedProjectMap(force) ==
    IF force \/ ~MapFile.exists THEN Null
    ELSE LET parsed == JSONParse(MapFile.text)
             scannedAt == Get(parsed.value, "scannedAt")
             date == IF scannedAt.t = "string" THEN DateParse(scannedAt.str)
                     ELSE [isNaN |-> TRUE, time |-> 0]
         IN  IF parsed.ok /\ ~date.isNaN /\ now - date.time < StaleMinutes
             THEN AsProjectMap(parsed.value)
             ELSE Null

\* The state after construction: no project map, no command under way.
Fresh ==
    /\ projectMap = Null
    /\ call = [op |-> "none"]
    /\ result = Undefined
    /\ now = 0
    /\ unreadable = {}
    /\ initCommand = NoInit
    /\ persisted = Null
    /\ asked = NotAsked
    /\ projectRoot = Null
    /\ isInitialized = FALSE
    /\ command = NoCommand
    /\ isReady = FALSE
    /\ llm = NoCall
    /\ generate = NoGenerate

Init ==
    /\ scannedFiles \in Scans
    /\ disk = NoFile
    /\ cwd = RootDir
    /\ componentsDir = NoDirectory
    /\ Fresh

\* initCommand from its first line to its last with nothing else in between,
\* in a project whose files can all be read: the return when there is no
\* package.json, the cached map installed, or buildProjectMap, the return
\* when no file was found, the map written and state.setProjectMap.
InstallProjectMap ==
    /\ call.op = "none"
    /\ initCommand.pc = "idle"
    /\ \A i \in 1..Len(ProjectFiles) : ProjectFiles[i].path \notin unreadable
    /\ \E force \in BOOLEAN :
           LET cached == CachedProjectMap(force)
               built == BuildProjectMap(ProjectFiles)
           IN  IF ~HasPackageJson(cwd)
               THEN UNCHANGED <<projectMap, disk, persisted, root>>
               ELSE IF cached # Null
               THEN /\ projectMap' = cached
                    /\ projectRoot' = JSString(cached.rootDir)
                    /\ isInitialized' = TRUE
                    /\ UNCHANGED <<disk, persisted>>
               ELSE IF Len(built.files) = 0
               THEN /\ projectRoot' = JSString(cwd)
                    /\ UNCHANGED <<projectMap, disk, persisted, isInitialized>>
               ELSE /\ disk' = FileWith(Stringify(MapObject(built)))
                    /\ persisted' = built
                    /\ projectMap' = built
                    /\ projectRoot' = JSString(built.rootDir)
                    /\ isInitialized' = TRUE
    /\ UNCHANGED <<scannedFiles, call, result, now, unreadable, initCommand, asked,
                   outside>>

\* A call of autocompleter.complete(line, cursorPos)
CallComplete ==
    \E line \in Lines : \E cursorPos \in 0..Len(line) :
        /\ call.op = "none"
        /\ call' = [op |-> "complete", line |-> line, cursorPos |-> cursorPos]
        /\ result' = JSArray(Complete(projectMap, line, cursorPos))
        /\ UNCHANGED state

\* A resolveReference that sorts the files of the project map where they are.
CallResolveReference_SortsTheFiles ==
    \E reference \in References :
        /\ call.op = "none"
        /\ call' = [op |-> "resolveReference", reference |-> reference]
        /\ result' = ResolveReference(projectMap, reference)
        /\ projectMap' = IF projectMap = Null THEN projectMap
                         ELSE [projectMap EXCEPT !.files = SortStrings(@)]
        /\ UNCHANGED <<scannedFiles, now, disk, unreadable, initCommand, persisted, asked,
                       root, outside>>

\* A call of autocompleter.resolveReference(reference)
CallResolveReference ==
    \E reference \in References :
        /\ call.op = "none"
        /\ call' = [op |-> "resolveReference", reference |-> reference]
        /\ result' = ResolveReference(projectMap, reference)
        /\ UNCHANGED state

\* A call of autocompleter.getFilesInFolder(folderPath)
CallGetFilesInFolder ==
    \E folderPath \in FolderPaths :
        /\ call.op = "none"
        /\ call' = [op |-> "getFilesInFolder", folderPath |-> folderPath]
        /\ result' = GetFilesInFolder(projectMap, folderPath)
        /\ UNCHANGED state

\* A call of infoCommand(state, filename)
CallInfoCommand ==
    \E filename \in References :
        /\ call.op = "none"
        /\ call' = [op |-> "infoCommand", filename |-> filename]
        /\ result' = InfoCommand(projectMap, filename)
        /\ UNCHANGED state

\* The REPL is back at its prompt: the answer has been shown.
Prompt ==
    /\ call.op # "none"
    /\ call' = [op |-> "none"]
    /\ result' = Undefined
    /\ UNCHANGED state

Next ==
    \/ InstallProjectMap
    \/ CallComplete
    \/ CallResolveReference
    \/ CallGetFilesInFolder
    \/ CallInfoCommand
    \/ Prompt

Spec == Init /\ [][Next]_vars

----------------------------------------------------------------------------
(* initCommand, one await after the other, with queries in between         *)

\* The projects the commands are followed in.
InitScans ==
    { <<>>,
      << ScannedFile("src/Button.tsx", PlainSource("src/Button.tsx")) >>,
      << ScannedFile("src/ui/Button.tsx", PlainSource("src/ui/Button.tsx")),
         ScannedFile("src/Lib/Card.tsx", PlainSource("src/Lib/Card.tsx")) >> }

InitStepwise ==
    /\ scannedFiles \in InitScans
    /\ disk \in {NoFile, CorruptFile}
    /\ cwd = RootDir
    /\ componentsDir = NoDirectory
    /\ Fresh

\* An initCommand that makes cwd the project root before it looks for the
\* package.json.
StartInit_RootBeforeAccess ==
    /\ call.op = "none"
    /\ initCommand.pc = "idle"
    /\ projectRoot' = JSString(cwd)
    /\ \E force \in BOOLEAN :
           IF HasPackageJson(cwd)
           THEN initCommand' = InitAt("cache", force, <<>>, EmptyMap, "running",
                                     [map |-> projectMap, disk |-> disk])
           ELSE initCommand' = InitAt("idle", FALSE, <<>>, EmptyMap, "noproject",
                                     [map |-> projectMap, disk |-> disk])
    /\ UNCHANGED <<scannedFiles, projectMap, call, result, now, disk, unreadable,
                   persisted, asked, isInitialized, outside>>

\* /init or /init --force is entered: lines 11-21 of initCommand, which
\* returns when cwd has no package.json and makes cwd the project root of the
\* state when it has one.
StartInit ==
    /\ call.op = "none"
    /\ initCommand.pc = "idle"
    /\ \E force \in BOOLEAN :
           IF HasPackageJson(cwd)
           THEN /\ projectRoot' = JSString(cwd)
                /\ initCommand' = InitAt("cache", force, <<>>, EmptyMap, "running",
                                         [map |-> projectMap, disk |-> disk])
           ELSE /\ initCommand' = InitAt("idle", FALSE, <<>>, EmptyMap, "noproject",
                                         [map |-> projectMap, disk |-> disk])
                /\ UNCHANGED projectRoot
    /\ UNCHANGED <<scannedFiles, projectMap, call, result, now, disk, unreadable,
                   persisted, asked, isInitialized, outside>>

\* Lines 27-56: the persisted map is read; it is installed and the command
\* returns, or the scan starts.
CheckCache ==
    /\ initCommand.pc = "cache"
    /\ LET cached == CachedProjectMap(initCommand.force)
       IN  IF cached # Null
           THEN /\ projectMap' = cached
                /\ projectRoot' = JSString(cached.rootDir)
                /\ isInitialized' = TRUE
                /\ initCommand' = Returned("cached")
           ELSE /\ initCommand' = [initCommand EXCEPT !.pc = "scan"]
                /\ UNCHANGED <<projectMap, root>>
    /\ UNCHANGED <<scannedFiles, call, result, now, disk, unreadable, persisted, asked,
                   outside>>

\* The loop going on after a file that cannot be read.
ReadFile_SkipsUnreadable ==
    /\ initCommand.pc = "scan"
    /\ Len(initCommand.files) < Len(ProjectFiles)
    /\ LET file == ProjectFiles[Len(initCommand.files) + 1]
       IN  initCommand' = [initCommand EXCEPT !.files = Append(@, file)]
    /\ UNCHANGED <<scannedFiles, projectMap, call, result, now, disk, unreadable,
                   persisted, asked, root, outside>>

\* scanProject reads its next file: a file that cannot be read rejects the
\* scan, buildProjectMap with it, and initCommand reports the failure.
ReadFile ==
    /\ initCommand.pc = "scan"
    /\ Len(initCommand.files) < Len(ProjectFiles)
    /\ LET file == ProjectFiles[Len(initCommand.files) + 1]
       IN  IF file.path \in unreadable
           THEN initCommand' = Returned("failed")
           ELSE initCommand' = [initCommand EXCEPT !.files = Append(@, file)]
    /\ UNCHANGED <<scannedFiles, projectMap, call, result, now, disk, unreadable,
                   persisted, asked, root, outside>>

\* The loop of buildProjectMap working on the project map of the state.
IndexFile_InPlace ==
    /\ initCommand.pc = "scan"
    /\ Len(initCommand.files) = Len(ProjectFiles)
    /\ Len(initCommand.built.files) < Len(initCommand.files)
    /\ LET file == initCommand.files[Len(initCommand.built.files) + 1]
           built == AddFile(initCommand.built, file)
       IN  /\ initCommand' = [initCommand EXCEPT !.built = built]
           /\ projectMap' = ReturnedMap(built)
    /\ UNCHANGED <<scannedFiles, call, result, now, disk, unreadable, persisted, asked,
                   root, outside>>

\* One iteration of the loop of buildProjectMap over the files read.  The loop
\* has no await; it is followed one iteration at a time so that what it has
\* built so far is part of the state.
IndexFile ==
    /\ initCommand.pc = "scan"
    /\ Len(initCommand.files) = Len(ProjectFiles)
    /\ Len(initCommand.built.files) < Len(initCommand.files)
    /\ LET file == initCommand.files[Len(initCommand.built.files) + 1]
       IN  initCommand' = [initCommand EXCEPT !.built = AddFile(@, file)]
    /\ UNCHANGED <<scannedFiles, projectMap, call, result, now, disk, unreadable,
                   persisted, asked, root, outside>>

\* buildProjectMap returns; initCommand returns when no file was found.
ReturnProjectMap ==
    /\ initCommand.pc = "scan"
    /\ Len(initCommand.files) = Len(ProjectFiles)
    /\ Len(initCommand.built.files) = Len(initCommand.files)
    /\ LET map == ReturnedMap(initCommand.built)
       IN  IF Len(map.files) = 0
           THEN initCommand' = Returned("nofiles")
           ELSE initCommand' = [initCommand EXCEPT !.pc = "persist", !.built = map]
    /\ UNCHANGED <<scannedFiles, projectMap, call, result, now, disk, unreadable,
                   persisted, asked, root, outside>>

\* Lines 80-84: the map is written to .reactgen/project-map.json.
Persist ==
    /\ initCommand.pc = "persist"
    /\ disk' = FileWith(Stringify(MapObject(initCommand.built)))
    /\ persisted' = initCommand.built
    /\ initCommand' = [initCommand EXCEPT !.pc = "install"]
    /\ UNCHANGED <<scannedFiles, projectMap, call, result, now, unreadable, asked,
                   root, outside>>

\* Line 86 and REPLState.setProjectMap: the map becomes the state's.
SetProjectMap ==
    /\ initCommand.pc = "install"
    /\ projectMap' = initCommand.built
    /\ projectRoot' = JSString(initCommand.built.rootDir)
    /\ isInitialized' = TRUE
    /\ initCommand' = Returned("scanned")
    /\ UNCHANGED <<scannedFiles, call, result, now, disk, unreadable, persisted, asked,
                   outside>>

\* A minute passes, at the prompt.
Tick ==
    /\ call.op = "none"
    /\ initCommand.pc = "idle"
    /\ now < MaxClock
    /\ now' = now + 1
    /\ UNCHANGED <<scannedFiles, projectMap, call, result, disk, unreadable,
                   initCommand, persisted, asked, root, outside>>

\* A file of the project loses its read permission, at the prompt.
Chmod ==
    /\ call.op = "none"
    /\ initCommand.pc = "idle"
    /\ \E i \in 1..Len(scannedFiles) :
           /\ scannedFiles[i].path \notin unreadable
           /\ unreadable' = unreadable \cup {scannedFiles[i].path}
    /\ UNCHANGED <<scannedFiles, projectMap, call, result, now, disk, initCommand,
                   persisted, asked, root, outside>>

NextStepwise ==
    \/ StartInit
    \/ CheckCache
    \/ ReadFile
    \/ IndexFile
    \/ ReturnProjectMap
    \/ Persist
    \/ SetProjectMap
    \/ Tick
    \/ Chmod
    \/ CallComplete
    \/ CallResolveReference
    \/ CallGetFilesInFolder
    \/ Prompt

SpecStepwise == InitStepwise /\ [][NextStepwise]_vars

----------------------------------------------------------------------------
(* The queries, with one of them remembered                                *)

\* The projects the queries are repeated on.
RepeatScans ==
    { << ScannedFile("src/Button.tsx", PlainSource("src/Button.tsx")) >>,
      << ScannedFile("src/ui/Button.tsx", PlainSource("src/ui/Button.tsx")),
         ScannedFile("src/Lib/Card.tsx", PlainSource("src/Lib/Card.tsx")) >>,
      << ScannedFile("src/ui/path/Icon.tsx", PlainSource("src/ui/path/Icon.tsx")) >> }

InitRepeat ==
    /\ scannedFiles \in RepeatScans
    /\ disk = NoFile
    /\ cwd = RootDir
    /\ componentsDir = NoDirectory
    /\ Fresh

\* History: the query just answered is remembered with its answer and the
\* project map it was asked of.
Remember ==
    /\ call.op # "none"
    /\ asked = NotAsked
    /\ asked' = [call |-> call, result |-> result, map |-> projectMap, others |-> FALSE]
    /\ UNCHANGED <<scannedFiles, projectMap, call, result, now, disk, unreadable,
                   initCommand, persisted, root, outside>>

\* History: another query than the remembered one has been answered since.
Notice ==
    /\ call.op # "none"
    /\ asked # NotAsked
    /\ ~asked.others
    /\ call # asked.call
    /\ asked' = [asked EXCEPT !.others = TRUE]
    /\ UNCHANGED <<scannedFiles, projectMap, call, result, now, disk, unreadable,
                   initCommand, persisted, root, outside>>

NextRepeat ==
    \/ InstallProjectMap
    \/ CallComplete
    \/ CallResolveReference
    \/ CallGetFilesInFolder
    \/ Prompt
    \/ Remember
    \/ Notice

SpecRepeat == InitRepeat /\ [][NextRepeat]_vars

----------------------------------------------------------------------------
(* handleCommand with an initCommand under way, in several directories     *)

\* The commands handleCommand runs only on an initialized state.
GuardedCommands == {"list", "info", "test"}

NotInitializedWarning == "Project not initialized. Run /init first."

InfoUsage == "Usage: /info <filename>"

\* REPLState.requiresInit()
RequiresInit == ~isInitialized

\* A handleCommand whose /test has no guard.
Handled_TestUnguarded(name, hasArgument) ==
    IF RequiresInit /\ name # "test"
    THEN [name |-> name, printed |-> NotInitializedWarning, ran |-> FALSE, returned |-> TRUE]
    ELSE IF name = "info" /\ ~hasArgument
    THEN [name |-> name, printed |-> InfoUsage, ran |-> FALSE, returned |-> TRUE]
    ELSE [name |-> name, printed |-> "", ran |-> TRUE, returned |-> TRUE]

\* The cases 'list', 'info' and 'test' of handleCommand: what it printed
\* itself, whether it ran listCommand, infoCommand or testCommand, and what
\* it returned.
Handled(name, hasArgument) ==
    IF RequiresInit
    THEN [name |-> name, printed |-> NotInitializedWarning, ran |-> FALSE, returned |-> TRUE]
    ELSE IF name = "info" /\ ~hasArgument
    THEN [name |-> name, printed |-> InfoUsage, ran |-> FALSE, returned |-> TRUE]
    ELSE [name |-> name, printed |-> "", ran |-> TRUE, returned |-> TRUE]

\* A line /list, /info or /test arrives: the listener of 'line' calls
\* handleCommand at once, whatever the handlers of earlier lines are
\* awaiting.  The three commands read the state and write nothing.
HandleCommand ==
    /\ \E name \in GuardedCommands : \E hasArgument \in BOOLEAN :
           command' = Handled(name, hasArgument)
    /\ UNCHANGED <<scannedFiles, projectMap, call, result, now, disk, unreadable,
                   initCommand, persisted, asked, root, cwd, isReady, llm, generate,
                   componentsDir>>

\* process.cwd() becomes another directory, at the prompt.
Chdir ==
    /\ call.op = "none"
    /\ initCommand.pc = "idle"
    /\ \E dir \in Directories \ {cwd} : cwd' = dir
    /\ UNCHANGED <<scannedFiles, projectMap, call, result, now, disk, unreadable,
                   initCommand, persisted, asked, root, command, isReady, llm, generate,
                   componentsDir>>

InitCommands ==
    /\ scannedFiles \in InitScans
    /\ disk = NoFile
    /\ cwd = RootDir
    /\ componentsDir = NoDirectory
    /\ Fresh

NextCommands ==
    \/ StartInit
    \/ CheckCache
    \/ ReadFile
    \/ IndexFile
    \/ ReturnProjectMap
    \/ Persist
    \/ SetProjectMap
    \/ Tick
    \/ Chmod
    \/ Chdir
    \/ HandleCommand

SpecCommands == InitCommands /\ [][NextCommands]_vars

----------------------------------------------------------------------------
(* OllamaClient                                                            *)

\* What ollama.list() meets: no server, a server without the model, a server
\* with it.
Servers == {"refused", "nomodel", "ready"}

NotInitializedMessage == "Ollama not initialized. Run /llm init first."

\* An initialize that is ready before it has asked the server.
Initialized_ReadyFirst(server) ==
    IF server = "ready"
    THEN [isReady |-> TRUE, threw |-> FALSE, message |-> ""]
    ELSE IF server = "nomodel"
    THEN [isReady |-> TRUE, threw |-> TRUE, message |-> "Model not found in Ollama."]
    ELSE [isReady |-> TRUE, threw |-> TRUE, message |-> "Cannot connect to Ollama. Is it running?"]

\* initialize(): isReady when it returns, whether it threw and what.
Initialized(server) ==
    IF server = "ready"
    THEN [isReady |-> TRUE, threw |-> FALSE, message |-> ""]
    ELSE IF server = "nomodel"
    THEN [isReady |-> isReady, threw |-> TRUE, message |-> "Model not found in Ollama."]
    ELSE [isReady |-> isReady, threw |-> TRUE,
          message |-> "Cannot connect to Ollama. Is it running?"]

\* A call of ollamaClient.initialize()
Initialize ==
    /\ \E server \in Servers :
           LET done == Initialized(server)
           IN  /\ isReady' = done.isReady
               /\ llm' = [op |-> "initialize", wasReady |-> isReady, threw |-> done.threw,
                          message |-> done.message,
                          returned |-> llm.returned \/ ~done.threw]
    /\ UNCHANGED <<scannedFiles, projectMap, call, result, now, disk, unreadable,
                   initCommand, persisted, asked, root, cwd, command, generate,
                   componentsDir>>

\* A call of ollamaClient.generate(prompt): rejected when the client is not
\* ready, else the answer of the server or its error.
Generate ==
    /\ \E server \in Servers :
           llm' = [op |-> "generate", wasReady |-> isReady,
                   threw |-> ~isReady \/ server # "ready",
                   message |-> IF ~isReady THEN NotInitializedMessage
                               ELSE IF server # "ready" THEN "fetch failed"
                               ELSE "",
                   returned |-> llm.returned]
    /\ UNCHANGED <<scannedFiles, projectMap, call, result, now, disk, unreadable,
                   initCommand, persisted, asked, root, cwd, command, isReady, generate,
                   componentsDir>>

----------------------------------------------------------------------------
(* RequestParser and generateCommand                                       *)

AVAILABLE_TEMPLATES ==
    << "form:login", "form:signup", "form:contact", "button:primary", "card:simple",
       "modal:confirm" >>

\* shorthandMap, in its declared order.
ShorthandMap ==
    << <<"login", "form:login">>, <<"signup", "form:signup">>,
       <<"register", "form:signup">>, <<"contact", "form:contact">>,
       <<"search", "form:search">>, <<"button", "button:primary">>,
       <<"btn", "button:primary">>, <<"card", "card:simple">>,
       <<"modal", "modal:confirm">>, <<"dialog", "modal:confirm">>,
       <<"nav", "nav:header">>, <<"navbar", "nav:header">>, <<"header", "nav:header">>,
       <<"sidebar", "nav:sidebar">>, <<"footer", "nav:header">> >>

\* mapToTemplate(reference): the template, "" for null.
MapToTemplate(reference) ==
    IF Includes(reference, ":")
    THEN IF reference \in Range(AVAILABLE_TEMPLATES) THEN reference ELSE ""
    ELSE LET short == ToLowerCase(reference)
             found == { i \in 1..Len(ShorthandMap) : ShorthandMap[i][1] = short }
         IN  IF found = {} THEN "" ELSE ShorthandMap[CHOOSE i \in found : TRUE][2]

\* input.indexOf(symbol), counted from 0; -1 is never asked for.
IndexOf(input, symbol) ==
    (CHOOSE i \in 1..Len(input) :
        /\ SubSeq(input, i, i + Len(symbol) - 1) = symbol
        /\ \A j \in 1..(i - 1) : SubSeq(input, j, j + Len(symbol) - 1) # symbol) - 1

\* The number words of extractCount, in their declared order.
NumberWords == << "one", "two", "three", "four", "five", "six", "seven", "eight", "nine", "ten" >>

\* text.match(/(\d+)/): the first run of digits, "" when there is none.
RECURSIVE FirstDigits(_, _)
FirstDigits(text, run) ==
    IF text = "" THEN run
    ELSE IF IsDigit(Head(text)) THEN FirstDigits(Tail(text), run \o Head(text))
    ELSE IF run # "" THEN run
    ELSE FirstDigits(Tail(text), "")

\* extractCount(input, symbol)
ExtractCount(input, symbol) ==
    LET symbolIndex == IndexOf(input, symbol)
        from == IF symbolIndex - 30 > 0 THEN symbolIndex - 30 ELSE 0
        contextBefore == ToLowerCase(SubSeq(input, from + 1, symbolIndex))
        words == { i \in 1..Len(NumberWords) : Includes(contextBefore, NumberWords[i]) }
        digits == FirstDigits(contextBefore, "")
    IN  IF words # {} THEN CHOOSE i \in words : \A j \in words : i <= j
        ELSE IF digits # "" THEN TextNumber(digits)
        ELSE 1

\* The end of the run of [\w:] that starts at position i.
RECURSIVE RunEnd(_, _)
RunEnd(input, i) ==
    IF i <= Len(input) /\ CharAt(input, i) \in WordChars \cup {":"}
    THEN RunEnd(input, i + 1)
    ELSE i - 1

\* input.matchAll(/@([\w:]+)/g) from position i on: the symbols, in order.
RECURSIVE MatchAll(_, _)
MatchAll(input, i) ==
    IF i > Len(input) THEN <<>>
    ELSE IF CharAt(input, i) = "@" /\ RunEnd(input, i + 1) > i
    THEN <<SubSeq(input, i, RunEnd(input, i + 1))>> \o MatchAll(input, RunEnd(input, i + 1) + 1)
    ELSE MatchAll(input, i + 1)

\* The loop of parse over the matches: a symbol met before is skipped, one
\* that maps to no template is dropped.  The context of a reference goes to
\* the prompt only and is left out.
RECURSIVE ParseMatches(_, _, _)
ParseMatches(input, symbols, foundReferences) ==
    IF symbols = <<>> THEN <<>>
    ELSE LET symbol == Head(symbols)
             template == MapToTemplate(Tail(symbol))
             rest == ParseMatches(input, Tail(symbols), foundReferences \cup {symbol})
         IN  IF symbol \in foundReferences THEN rest
             ELSE IF template = "" THEN rest
             ELSE <<[symbol |-> symbol, template |-> template,
                     count |-> ExtractCount(input, symbol)]>> \o rest

\* parse(input).components
Parse(input) == ParseMatches(input, MatchAll(input, 1), {})

\* word.charAt(0).toUpperCase() + word.slice(1)
Capitalize(word) ==
    IF word = "" THEN ""
    ELSE LET c == Head(word)
             up == { i \in 1..Len(LowerCase) : CharAt(LowerCase, i) = c }
         IN  (IF up = {} THEN c ELSE CharAt(UpperCase, CHOOSE i \in up : TRUE)) \o Tail(word)

\* baseName.split(/[-_]/)
SplitWords(name) ==
    LET dashed == Split(name, "-")
        RECURSIVE Each(_)
        Each(parts) == IF parts = <<>> THEN <<>>
                       ELSE Split(Head(parts), "_") \o Each(Tail(parts))
    IN  Each(dashed)

\* generateComponentName(template, index, total)
GenerateComponentName(template, index, total) ==
    LET parts == Split(template, ":")
        variant == IF Len(parts) >= 2 THEN parts[2] ELSE ""
        baseName == Join(Map(SplitWords(IF variant # "" THEN variant ELSE parts[1]),
                             Capitalize), "")
    IN  IF total > 1 THEN baseName \o NumberText(index + 1) ELSE baseName

\* path.join(state.projectRoot || process.cwd(), 'src/components', name + '.tsx')
OutputPath(componentName) ==
    (IF Truthy(projectRoot) THEN projectRoot.str ELSE cwd)
        \o "/src/components/" \o componentName \o ".tsx"

\* fs.access(outputPath) succeeds.
Exists(dir, path) == \E file \in dir.files : file.path = path

\* The code the generator returns for a reference: it is the answer of a
\* language model, told apart here by the symbol it was asked for.
CodeFor(symbol, componentName) == "export function " \o componentName \o " // " \o symbol

\* The components the request asks for, one for each of comp.count, in the
\* order of the two loops.
RECURSIVE Wanted(_, _)
Wanted(components, i) ==
    IF components = <<>> THEN <<>>
    ELSE LET comp == Head(components)
         IN  IF i >= comp.count THEN Wanted(Tail(components), 0)
             ELSE <<[symbol |-> comp.symbol,
                     name |-> GenerateComponentName(comp.template, i, comp.count)]>>
                  \o Wanted(components, i + 1)

\* Lines 45-82: every output path is checked and, when no file is there,
\* its code generated; broken are the names whose generation throws.
RECURSIVE Generation(_, _, _)
Generation(wanted, broken, dir) ==
    IF wanted = <<>> THEN [checked |-> <<>>, filesToCreate |-> <<>>]
    ELSE LET want == Head(wanted)
             outputPath == OutputPath(want.name)
             rest == Generation(Tail(wanted), broken, dir)
             exists == Exists(dir, outputPath)
         IN  [checked |-> <<[path |-> outputPath, exists |-> exists]>> \o rest.checked,
              filesToCreate |->
                  IF exists \/ want.name \in broken THEN rest.filesToCreate
                  ELSE <<[path |-> outputPath, code |-> CodeFor(want.symbol, want.name)]>>
                       \o rest.filesToCreate]

\* fs.mkdir(path.dirname(file.path), {recursive: true}) and fs.writeFile,
\* for every file of filesToCreate in turn.
RECURSIVE WriteFiles(_, _)
WriteFiles(dir, filesToCreate) ==
    IF filesToCreate = <<>> THEN dir
    ELSE LET file == Head(filesToCreate)
             others == { f \in dir.files : f.path # file.path }
         IN  WriteFiles([exists |-> TRUE, files |-> others \cup {file}], Tail(filesToCreate))

\* How a generateCommand ended, with its locals, and the directory it leaves.
Ended(outcome, input, confirm, generation, written, dir) ==
    [run |-> [outcome |-> outcome, input |-> input, confirm |-> confirm,
              checked |-> generation.checked,
              filesToCreate |-> generation.filesToCreate,
              written |-> written, before |-> componentsDir],
     dir |-> dir]

NoGeneration == [checked |-> <<>>, filesToCreate |-> <<>>]

\* A generateCommand that writes the files whatever the answer.
GenerateCommandOf_WritesUnasked(input, broken, confirm) ==
    IF ~isReady THEN Ended("notready", input, FALSE, NoGeneration, <<>>, componentsDir)
    ELSE LET components == Parse(input)
             generation == Generation(Wanted(components, 0), broken, componentsDir)
         IN  IF Len(components) = 0
             THEN Ended("invalid", input, FALSE, NoGeneration, <<>>, componentsDir)
             ELSE IF Len(generation.filesToCreate) = 0
             THEN Ended("nofiles", input, FALSE, generation, <<>>, componentsDir)
             ELSE Ended(IF confirm THEN "created" ELSE "cancelled", input, confirm,
                        generation,
                        [ i \in 1..Len(generation.filesToCreate) |->
                            generation.filesToCreate[i].path ],
                        WriteFiles(componentsDir, generation.filesToCreate))

\* generateCommand(state, input), with the names whose generation fails and
\* the answer to `Create these files?`.
GenerateCommandOf(input, broken, confirm) ==
    IF ~isReady THEN Ended("notready", input, FALSE, NoGeneration, <<>>, componentsDir)
    ELSE LET components == Parse(input)
             generation == Generation(Wanted(components, 0), broken, componentsDir)
         IN  IF Len(components) = 0
             THEN Ended("invalid", input, FALSE, NoGeneration, <<>>, componentsDir)
             ELSE IF Len(generation.filesToCreate) = 0
             THEN Ended("nofiles", input, FALSE, generation, <<>>, componentsDir)
             ELSE IF ~confirm
             THEN Ended("cancelled", input, FALSE, generation, <<>>, componentsDir)
             ELSE Ended("created", input, TRUE, generation,
                        [ i \in 1..Len(generation.filesToCreate) |->
                            generation.filesToCreate[i].path ],
                        WriteFiles(componentsDir, generation.filesToCreate))

\* The requests typed.
Requests ==
    { "@login", "two @card", "@login @form:login", "@nope now", "@card @card",
      "make @btn", "2 @card" }

\* The component names whose generation may fail.
Unreliable == {"Login", "Simple2"}

\* A generateCommand from its first line to its last.
GenerateCommand ==
    /\ \E input \in Requests : \E broken \in SUBSET Unreliable : \E confirm \in BOOLEAN :
           LET ended == GenerateCommandOf(input, broken, confirm)
           IN  /\ generate' = ended.run
               /\ componentsDir' = ended.dir
    /\ UNCHANGED <<scannedFiles, projectMap, call, result, now, disk, unreadable,
                   initCommand, persisted, asked, root, cwd, command, isReady, llm>>

InitGenerate ==
    /\ scannedFiles = <<>>
    /\ disk = NoFile
    /\ cwd = RootDir
    /\ componentsDir = NoDirectory
    /\ Fresh

NextGenerate ==
    \/ Initialize
    \/ Generate
    \/ GenerateCommand

SpecGenerate == InitGenerate /\ [][NextGenerate]_vars

----------------------------------------------------------------------------
(* What the claims speak of, said from the list of files alone             *)

Installed == projectMap # Null

Segments(path) == Split(path, "/")

IsPrefix(segs, path) ==
    /\ Len(segs) <= Len(Segments(path))
    /\ SubSeq(Segments(path), 1, Len(segs)) = segs

\* The indexed files that are direct children of the directory segs.
FilesIn(files, segs) ==
    { p \in Range(files) : IsPrefix(segs, p) /\ Len(Segments(p)) = Len(segs) + 1 }

\* The names of the subdirectories of the directory segs.
SubdirsOf(files, segs) ==
    { Segments(p)[Len(segs) + 1] :
        p \in { q \in Range(files) : IsPrefix(segs, q) /\ Len(Segments(q)) > Len(segs) + 1 } }

\* The directory segs holds an indexed file, at some depth.
DirectoryExists(files, segs) ==
    \E p \in Range(files) : IsPrefix(segs, p) /\ Len(Segments(p)) > Len(segs)

\* The least index of files whose file has the stripped name; 0 if none.
FirstIndexNamed(files, name) ==
    LET hits == { i \in 1..Len(files) : StrippedName(files[i]) = name }
    IN  IF hits = {} THEN 0 ELSE CHOOSE i \in hits : \A j \in hits : i <= j

IsSorted(xs) == \A i \in 1..(Len(xs) - 1) : StrLeq(xs[i], xs[i + 1])

IsStrictlySorted(xs) == \A i \in 1..(Len(xs) - 1) : StrLess(xs[i], xs[i + 1])

\* The reference is #X: the name X is what follows the #.
IsBareReference(reference) == reference # "" /\ Head(reference) = "#"

\* The reference is .seg1...segN#X
IsQualifiedReference(reference) ==
    /\ reference # "" /\ Head(reference) = "."
    /\ Cardinality({ i \in 1..Len(reference) : CharAt(reference, i) = "#" }) = 1

QualifierOf(reference) ==
    LET h == CHOOSE i \in 1..Len(reference) : CharAt(reference, i) = "#"
    IN  Split(SubSeq(reference, 2, h - 1), ".")

NameOf(reference) ==
    LET h == CHOOSE i \in 1..Len(reference) : CharAt(reference, i) = "#"
    IN  SubSeq(reference, h + 1, Len(reference))

\* The tree entry a relative path leads to, one segment after the other.
RECURSIVE EntryAt(_, _)
EntryAt(node, segs) ==
    IF segs = <<>> THEN node ELSE EntryAt(Get(node, Head(segs)), Tail(segs))

\* The leaves of a tree: the path tags of its entries that carry one, an entry
\* without the tag being a directory whose entries are visited in turn.
RECURSIVE Leaves(_)
Leaves(node) ==
    UNION { LET item == Get(node, key)
            IN  IF item.t # "object" THEN {}
                ELSE IF Truthy(Get(item, "path")) THEN { Get(item, "path") }
                ELSE Leaves(item)
            : key \in Range(Keys(node)) }

\* The text the last complete call saw before the cursor, and its token.
TextBeforeCursor == SubSeq(call.line, 1, call.cursorPos)

AtToken == MatchToken(TextBeforeCursor, "@", TemplateChars)

HashToken == MatchToken(TextBeforeCursor, "#", FileChars)

DotToken == MatchToken(TextBeforeCursor, ".", FolderChars)

CompletedAt == call.op = "complete" /\ AtToken.matched

CompletedHash == call.op = "complete" /\ ~AtToken.matched /\ HashToken.matched

CompletedDot ==
    call.op = "complete" /\ ~AtToken.matched /\ ~HashToken.matched /\ DotToken.matched

\* The segments of a `.` token: those before the last, and the last.
LeadingSegments == LET parts == Split(DotToken.group, ".") IN SubSeq(parts, 1, Len(parts) - 1)

LastSegmentTyped == LET parts == Split(DotToken.group, ".") IN parts[Len(parts)]

NonEmptySegments(segs) == SelectSeq(segs, LAMBDA x : x # "")

\* The leading segments lead, one exact child lookup each, to a directory.
LeadsToDirectory(files, segs) == segs = <<>> \/ DirectoryExists(files, segs)

\* The directory-typed children of the directory segs: its entries that lack
\* the path tag, which an entry has when something in it is named "path".
DirectoryTypedChildren(files, segs) ==
    { c \in SubdirsOf(files, segs) : "path" \notin SubdirsOf(files, Append(segs, c)) }

\* A completion of a `.` token: the dotted prefix and the child's name.
Dotted(segs, child) == "." \o Join(Append(segs, child), ".")

\* What the index records for the file at a relative path.
RecordedType(path) == Get(EntryAt(projectMap.structure, Segments(path)), "type").str

RecordedExports(path) == Get(EntryAt(projectMap.structure, Segments(path)), "exports").items

\* The exports of the files of a list that are recorded as components, in
\* the order of the list.
RECURSIVE ComponentExports(_)
ComponentExports(files) ==
    IF files = <<>> THEN <<>>
    ELSE (IF RecordedType(Head(files)) = "component" THEN RecordedExports(Head(files))
          ELSE <<>>) \o ComponentExports(Tail(files))

----------------------------------------------------------------------------
(* The claims                                                              *)

\* C1: resolveReference("#X") returns the first path of the files list, in
\* scan order, whose stripped filename is X, and null when there is none.
C1_FirstInScanOrder ==
    (Installed /\ call.op = "resolveReference" /\ IsBareReference(call.reference)) =>
        LET i == FirstIndexNamed(projectMap.files, Tail(call.reference))
        IN  result = IF i = 0 THEN Null ELSE JSString(projectMap.files[i])

\* C2: resolveReference(".seg1...segN#X") returns a path only if a file with
\* stripped filename X is a direct child of the directory seg1/.../segN, and
\* returns null otherwise.
C2_QualifiedNeverRecurses ==
    (Installed /\ call.op = "resolveReference" /\ IsQualifiedReference(call.reference)) =>
        LET children == { p \in FilesIn(projectMap.files, QualifierOf(call.reference)) :
                            StrippedName(p) = NameOf(call.reference) }
        IN  /\ result # Null => \E p \in children : result = JSString(p)
            /\ children = {} => result = Null

\* C3: the leaves of the tree (the entries carrying the path tag) are exactly
\* the relative paths of the scanned files, and each path of the files list
\* leads, split on '/', to the leaf that carries it.
C3_LeavesAreTheFiles ==
    Installed =>
        /\ Leaves(projectMap.structure) = { JSString(p) : p \in Range(projectMap.files) }
        /\ \A p \in Range(projectMap.files) :
               Get(EntryAt(projectMap.structure, Segments(p)), "path") = JSString(p)

\* C4: for a `#` token with suffix s, complete returns the '#'-prefixed
\* stripped filenames of exactly the files whose lower-cased stripped filename
\* contains lower-cased s, without duplicates, sorted ascending.
C4_FileCompletionBySubstring ==
    (Installed /\ CompletedHash) =>
        /\ Range(result.items) =
               { "#" \o StrippedName(p) :
                   p \in { q \in Range(projectMap.files) :
                             Includes(ToLowerCase(StrippedName(q)),
                                      ToLowerCase(HashToken.group)) } }
        /\ IsStrictlySorted(result.items)

\* C4's case: a suffix that matches inside the name and in another letter
\* case, in a project where two files share the stripped filename.
C4_Witness ==
    /\ Installed /\ CompletedHash
    /\ HashToken.group = "uTt"
    /\ result.items = <<"#Button">>
    /\ Len(projectMap.files) = 2
    /\ \A p \in Range(projectMap.files) : StrippedName(p) = "Button"

C6_AnyMissingSegmentFails ==
    (Installed /\ CompletedDot /\ ~LeadsToDirectory(projectMap.files, LeadingSegments)) =>
        result.items = <<>>

\* C6 as amended: empty segments are skipped; when a non-empty segment before
\* the last does not name a child of the directory reached so far, complete
\* returns nothing.
C6_MissingNonEmptySegmentFails ==
    (Installed /\ CompletedDot
        /\ ~LeadsToDirectory(projectMap.files, NonEmptySegments(LeadingSegments))) =>
        result.items = <<>>

\* C6's case: a leading segment that differs from a directory's name in
\* letter case only, before a last segment that would match below it.
C6_Witness ==
    /\ Installed /\ CompletedDot
    /\ DotToken.group = "SRC.u"
    /\ "ui" \in DirectoryTypedChildren(projectMap.files, <<"src">>)
    /\ result.items = <<>>

\* C7: for an `@` token with suffix s, complete returns the '@'-prefixed
\* identifiers of exactly the catalog's templates that start with s, so that
\* every result starts with the typed token.
C7_TemplateCompletionByPrefix ==
    CompletedAt =>
        /\ Range(result.items) =
               { "@" \o t : t \in { u \in Range(TEMPLATES) : StartsWith(u, AtToken.group) } }
        /\ Len(result.items) = Cardinality(Range(result.items))
        /\ \A i \in 1..Len(result.items) :
               StartsWith(result.items[i], "@" \o AtToken.group)

\* C7's case: a suffix that some templates start with and others contain.
C7_Witness ==
    /\ CompletedAt
    /\ AtToken.group = "form:s"
    /\ result.items = <<"@form:signup", "@form:search">>

\* C8 as claimed: whatever the token, complete returns a sorted sequence.
C8_AlwaysSorted ==
    call.op = "complete" => IsSorted(result.items)

\* The place of a completion's template in the catalog.
CatalogIndex(completion) ==
    CHOOSE i \in 1..Len(TEMPLATES) : "@" \o TEMPLATES[i] = completion

\* C8 as amended: for `#` and `.` tokens complete returns a sequence sorted
\* ascending by code units; for `@` tokens it returns the matches in the
\* order of the catalog.
C8_SortedForFilesAndFolders ==
    /\ (CompletedHash \/ CompletedDot) => IsSorted(result.items)
    /\ CompletedAt =>
           \A i, j \in 1..Len(result.items) :
               i < j => CatalogIndex(result.items[i]) < CatalogIndex(result.items[j])

\* C8's case: two folders, found in the other order by the scan, one of
\* which sorts first only because capitals come before small letters.
C8_Witness ==
    /\ Installed /\ CompletedDot
    /\ projectMap.files = <<"src/ui/Button.tsx", "src/Lib/Card.tsx">>
    /\ result.items = <<".src.Lib", ".src.ui">>

\* C9: every indexed file, one whose extraction failed included, is recorded
\* as 'test' if and only if its filename contains '.test.' or '.spec.';
\* otherwise as 'component' if and only if its exports are non-empty;
\* otherwise as 'utility'.
C9_CategoryRule ==
    Installed =>
        \A p \in Range(projectMap.files) :
            RecordedType(p) =
                IF Includes(LastSegment(p), ".test.") \/ Includes(LastSegment(p), ".spec.")
                THEN "test"
                ELSE IF RecordedExports(p) # <<>> THEN "component"
                ELSE "utility"

\* C10: the components list is the concatenation, in scan order, of the
\* exports of exactly the files recorded as 'component'.
C10_ComponentsAreComponentExports ==
    Installed => projectMap.components = ComponentExports(projectMap.files)

\* C10's case: a test file that exports a name, scanned before a component.
C10_Witness ==
    /\ Installed
    /\ Len(projectMap.files) = 2
    /\ RecordedType(projectMap.files[1]) = "test"
    /\ RecordedExports(projectMap.files[1]) # <<>>
    /\ RecordedType(projectMap.files[2]) = "component"
    /\ Len(projectMap.components) = 2


----------------------------------------------------------------------------
\* The test the queries make of a tree entry to take it for a file: getFoldersIn
\* (negated), getFilesInFolder and resolveReference.
TreatedAsFile(item) == Truthy(item) /\ TypeofObject(item) /\ Truthy(Get(item, "path"))

RecordedImports(path) == Get(EntryAt(projectMap.structure, Segments(path)), "imports").items

\* A trigger character of the text is followed by characters of its class
\* only, up to the end of the text.
TokenEndsAt(text) ==
    \E i \in 1..Len(text) :
        LET run == SubSeq(text, i + 1, Len(text))
        IN  \/ CharAt(text, i) = "@" /\ AllIn(run, TemplateChars)
            \/ CharAt(text, i) = "#" /\ AllIn(run, FileChars)
            \/ CharAt(text, i) = "." /\ AllIn(run, FolderChars)

\* The stripped filenames of the files of the list that are direct children of
\* the directory segs, in the order of the list.
StrippedNamesIn(files, segs) ==
    Map(Filter(files, LAMBDA p : p \in FilesIn(files, segs)), StrippedName)

\* C11: resolveReference never throws: it returns a relative path or null,
\* for every reference and with or without a project map.
C11_ResolveNeverThrows ==
    call.op = "resolveReference" => result # Threw

\* C13: a file that does not parse is indexed with empty exports and imports,
\* the build goes on, and every other file has the entry it would have if the
\* failing file had parsed.
C13_ParseFailureStaysLocal ==
    Installed =>
        \A i \in 1..Len(scannedFiles) :
            ~scannedFiles[i].content.syntaxOk =>
                LET repaired == [scannedFiles EXCEPT ![i].content.syntaxOk = TRUE]
                    other == BuildProjectMap(repaired)
                IN  /\ RecordedExports(scannedFiles[i].path) = <<>>
                    /\ RecordedImports(scannedFiles[i].path) = <<>>
                    /\ projectMap.files = other.files
                    /\ \A j \in 1..Len(scannedFiles) :
                           j # i =>
                               EntryAt(projectMap.structure, Segments(scannedFiles[j].path))
                                   = EntryAt(other.structure, Segments(scannedFiles[j].path))

C13_Witness ==
    /\ Installed
    /\ Len(scannedFiles) = 2
    /\ ~scannedFiles[1].content.syntaxOk
    /\ scannedFiles[1].content.exports # <<>>
    /\ RecordedExports(scannedFiles[2].path) # <<>>

\* C17: the queries take a tree entry for a file exactly when the builder
\* attached it as a file's record, and for a directory exactly when the
\* builder created it as a directory.
C17_TagTellsFilesFromDirectories ==
    Installed =>
        \A p \in Range(projectMap.files) :
            /\ TreatedAsFile(EntryAt(projectMap.structure, Segments(p)))
            /\ \A n \in 1..(Len(Segments(p)) - 1) :
                   ~TreatedAsFile(EntryAt(projectMap.structure, SubSeq(Segments(p), 1, n)))

\* C19: complete depends on the text before the cursor only: a line that
\* agrees with the typed one up to the cursor gives the same result, and the
\* result is empty when no trigger character is followed by characters of its
\* class up to the cursor.
C19_OnlyTheTextBeforeTheCursor ==
    call.op = "complete" =>
        /\ result = JSArray(Complete(projectMap, TextBeforeCursor, Len(TextBeforeCursor)))
        /\ \A line \in Lines : \A cursorPos \in 0..Len(line) :
               SubSeq(line, 1, cursorPos) = TextBeforeCursor =>
                   result = JSArray(Complete(projectMap, line, cursorPos))
        /\ ~TokenEndsAt(TextBeforeCursor) => result = JSArray(<<>>)

C19_Witness ==
    /\ call.op = "complete"
    /\ call.cursorPos < Len(call.line)
    /\ result.items # <<>>
    /\ \E line \in Lines :
           /\ line # call.line
           /\ Len(line) > call.cursorPos
           /\ SubSeq(line, 1, call.cursorPos) = TextBeforeCursor
           /\ Complete(projectMap, line, Len(line)) # result.items

\* C20: getFilesInFolder returns, sorted ascending, the stripped filenames of
\* the files that are direct children of the directory its dot-separated
\* segments lead to, and the empty sequence when a segment does not exist or
\* no project map is loaded.
C20_FilesOfTheFolder ==
    call.op = "getFilesInFolder" =>
        LET segs == Split(call.folderPath, ".")
        IN  result = IF Installed /\ DirectoryExists(projectMap.files, segs)
                     THEN JSArray(SortStrings(StrippedNamesIn(projectMap.files, segs)))
                     ELSE JSArray(<<>>)


----------------------------------------------------------------------------
\* Some file of the project cannot be read.
AnyUnreadable == \E i \in 1..Len(scannedFiles) : scannedFiles[i].path \in unreadable

\* The minute the persisted project map was built at.
PersistedAt == CHOOSE t \in 0..MaxClock : ToISOString(t) = persisted.scannedAt

\* .reactgen/project-map.json holds the map an initCommand wrote, built less
\* than five minutes ago.
PersistedIsFresh ==
    /\ disk.exists
    /\ disk # CorruptFile
    /\ persisted # Null
    /\ now < PersistedAt + StaleMinutes

\* The relative paths of the project, in scan order.
ScannedPaths == [ i \in 1..Len(scannedFiles) |-> scannedFiles[i].path ]

\* C12: when a file cannot be read during the scan of an initCommand, the
\* command fails as a whole: nothing is written, no project map is installed,
\* and the project map of the state is the one it was.
C12_UnreadableFileFailsTheBuild ==
    /\ (initCommand.pc \in {"persist", "install"}) => ~AnyUnreadable
    /\ (initCommand.outcome = "failed" \/ (initCommand.pc = "scan" /\ AnyUnreadable)) =>
           /\ projectMap = initCommand.before.map
           /\ disk = initCommand.before.disk

C12_Witness ==
    /\ initCommand.outcome = "failed"
    /\ initCommand.before.map # Null
    /\ initCommand.before.disk.exists
    /\ Len(scannedFiles) = 2
    /\ scannedFiles[1].path \notin unreadable

C15_NeverAHalfBuiltMap ==
    projectMap # Null =>
        /\ projectMap.files = ScannedPaths
        /\ \A p \in Range(ScannedPaths) :
               Get(EntryAt(projectMap.structure, Segments(p)), "path") = JSString(p)

C15_Witness ==
    /\ initCommand.pc = "scan"
    /\ Len(initCommand.built.files) = 1
    /\ Len(scannedFiles) = 2
    /\ projectMap # Null
    /\ call.op = "complete"
    /\ result.items # <<>>

\* C18: a project map taken from the file an initCommand wrote has the
\* structure, the files and the components of the map that was written.
C18_ReloadedMapIsThePersistedOne ==
    initCommand.outcome = "cached" =>
        /\ projectMap.structure = persisted.structure
        /\ projectMap.files = persisted.files
        /\ projectMap.components = persisted.components

C18_Witness ==
    /\ initCommand.outcome = "cached"
    /\ Len(projectMap.files) = 2
    /\ projectMap.components # <<>>
    /\ initCommand.before.disk.exists


----------------------------------------------------------------------------
(* infoCommand and the references completion gives                         *)

\* The path resolveReference gives the filename infoCommand was called with.
ResolvedForInfo == ResolveReference(projectMap, call.filename)

\* infoCommand was given a reference that resolveReference resolves.
InfoOfResolved ==
    /\ call.op = "infoCommand"
    /\ ResolvedForInfo # Threw
    /\ ResolvedForInfo.t = "string"

\* C25: infoCommand given a reference that resolveReference resolves to the
\* path P displays the record whose path is P, also when several indexed
\* files share the stripped filename.
C25_InfoShowsTheResolvedFile ==
    InfoOfResolved => result = ResolvedForInfo

\* What is left of the text before the cursor when its `#` token is taken off.
BeforeHashToken ==
    SubSeq(TextBeforeCursor, 1, Len(TextBeforeCursor) - Len(HashToken.group) - 1)

\* The word the `#` token is the end of, without the token: "" for a bare
\* token, ".src.ui" for the token of ".src.ui#But".
HashQualifier ==
    LET words == Split(BeforeHashToken, " ") IN words[Len(words)]

\* The word is .seg1...segN
IsFolderQualifier(word) ==
    /\ Len(word) >= 2
    /\ Head(word) = "."
    /\ AllIn(Tail(word), WordChars \cup {"."})

\* The reference the line holds once the token is replaced by a completion.
CompletedReference(completion) == HashQualifier \o completion

\* C26: for every Index and every line ending in a `#` token, bare or
\* preceded by a `.folder` qualifier, replacing the token by any of the
\* completions gives a reference that resolveReference resolves to a file
\* whose stripped filename is the completion without its '#'.
C26_CompletionsResolve ==
    (/\ CompletedHash
     /\ Installed
     /\ HashQualifier = "" \/ IsFolderQualifier(HashQualifier))
    => \A i \in 1..Len(result.items) :
           LET completion == result.items[i]
               resolved == ResolveReference(projectMap, CompletedReference(completion))
           IN  /\ resolved # Threw
               /\ resolved.t = "string"
               /\ StrippedName(resolved.str) = Tail(completion)

----------------------------------------------------------------------------
(* The three token patterns                                                *)

\* How many of the three patterns match the text before the cursor.
MatchingPatterns ==
    Cardinality({ token \in { <<"@", AtToken>>, <<"#", HashToken>>, <<".", DotToken>> } :
                    token[2].matched })

\* No trigger character is in the class of another pattern, so a token of
\* one pattern cannot run over the trigger of another.
TriggersKeptApart ==
    /\ "@" \notin FileChars \cup FolderChars
    /\ "#" \notin TemplateChars \cup FolderChars
    /\ "." \notin TemplateChars \cup FileChars

\* C30: for every line and cursor offset at most one of the three token
\* patterns (@, #, .) matches the text before the cursor, so the result of
\* complete is that of the one pattern that matches, whatever the order the
\* patterns are tried in.
C30_AtMostOnePattern ==
    /\ TriggersKeptApart
    /\ call.op = "complete" =>
           /\ MatchingPatterns <= 1
           /\ AtToken.matched => result.items = CompleteTemplate(AtToken.group)
           /\ HashToken.matched => result.items = CompleteFile(projectMap, HashToken.group)
           /\ DotToken.matched => result.items = CompleteFolder(projectMap, DotToken.group)
           /\ MatchingPatterns = 0 => result.items = <<>>

\* A `#` token is completed in a text that holds an `@` before it.
C30_Witness ==
    /\ CompletedHash
    /\ Includes(TextBeforeCursor, "@")
    /\ MatchingPatterns = 1
    /\ result.items # <<>>

----------------------------------------------------------------------------
(* handleCommand, initCommand and the directories                          *)

\* handleCommand handles /list, /info or /test on a state that is not
\* initialized.
HandlesUninitialized ==
    /\ command' # command
    /\ command'.name \in GuardedCommands
    /\ ~isInitialized

\* C21: handleCommand never runs /list, /info or /test while the state is
\* uninitialized: it prints the 'Project not initialized' warning, leaves the
\* state unchanged and returns true.
C21_GuardedCommandsNeedInit ==
    [][HandlesUninitialized =>
           /\ command'.printed = NotInitializedWarning
           /\ ~command'.ran
           /\ command'.returned
           /\ UNCHANGED <<projectMap, projectRoot, isInitialized, scannedFiles, disk,
                          initCommand, persisted>>]_vars

\* /test was answered with the warning while an initCommand was scanning.
C21_Witness ==
    /\ command.name = "test"
    /\ command.printed = NotInitializedWarning
    /\ ~command.ran
    /\ ~isInitialized
    /\ initCommand.pc = "scan"

\* An initCommand starts in a directory that has no package.json.
StartsWithoutPackageJson ==
    /\ initCommand.pc = "idle"
    /\ initCommand' # initCommand
    /\ ~HasPackageJson(cwd)

\* C24: initCommand run in a working directory without package.json changes
\* nothing in the REPL state: projectMap, projectRoot and isInitialized keep
\* their values, and nothing is scanned or persisted.
C24_NoPackageJsonChangesNothing ==
    [][StartsWithoutPackageJson =>
           /\ initCommand'.pc = "idle"
           /\ initCommand'.outcome = "noproject"
           /\ initCommand'.files = <<>>
           /\ UNCHANGED <<projectMap, projectRoot, isInitialized, disk, persisted>>]_vars

\* An initCommand has returned for want of a package.json on a state that an
\* earlier initCommand had initialized in the project.
C24_Witness ==
    /\ initCommand.outcome = "noproject"
    /\ cwd = BareDir
    /\ isInitialized
    /\ projectRoot = JSString(RootDir)
    /\ projectMap # Null

\* The directory whose files the project map of the state describes: the
\* only one that holds React files.
DescribedDirectory == RootDir

\* C28: after any sequence of initCommand calls (cached, forced, failing,
\* finding no files, or run from different working directories), whenever
\* the state is initialized, state.projectRoot equals
\* state.projectMap.rootDir and equals the directory whose files the project
\* map describes.
C28_RootIsTheMapsDirectory ==
    (isInitialized /\ initCommand.pc = "idle") =>
        /\ projectMap # Null
        /\ projectRoot = JSString(projectMap.rootDir)
        /\ projectRoot = JSString(DescribedDirectory)

\* C29: the REPL handles input lines one at a time in arrival order: the
\* handler of a line does not start before the handler of the previous line
\* has finished (no /list, /info or /test is handled while an initCommand is
\* under way).
C29_OneLineAtATime ==
    [][command' # command => initCommand.pc = "idle"]_vars

----------------------------------------------------------------------------
(* OllamaClient and generateCommand                                        *)

ReturnedEarly == {"notready", "invalid", "nofiles", "cancelled"}

\* C23: generateCommand writes no file and creates no directory unless the
\* user answered the confirmation prompt with yes; when the user declines,
\* when no component was generated, when the request has no valid @component
\* or when Ollama is not initialized, the file system is left unchanged.
C23_NothingWrittenUnlessConfirmed ==
    /\ generate.outcome \in ReturnedEarly =>
           componentsDir = generate.before /\ generate.written = <<>>
    /\ (generate.outcome # "none" /\ componentsDir # generate.before) =>
           generate.confirm /\ generate.outcome = "created"

\* The user declined files that had been generated, in a project that has no
\* src/components yet.
C23_Witness ==
    /\ generate.outcome = "cancelled"
    /\ Len(generate.filesToCreate) = 2
    /\ ~componentsDir.exists
    /\ isReady

\* C27: generateCommand never overwrites a file: every path it writes did not
\* exist when the command checked it, and within one command no output path
\* is written more than once, also when two different @references of the
\* request map to the same template and component name.
C27_NeverOverwrites ==
    generate.outcome = "created" =>
        /\ \A i \in 1..Len(generate.written) :
               ~Exists(generate.before, generate.written[i])
        /\ \A i, j \in 1..Len(generate.written) :
               generate.written[i] = generate.written[j] => i = j

=============================================================================
